---- MODULE Spec2Model ----
(***************************************************************************)
(* Model of the Karwa banner bot: the per-user session map kept by         *)
(* KarwaBannerBot (bot.py), the handlers that drive it (bot.py,            *)
(* handlers.py, admin_handlers.py) and the SQLite store behind it          *)
(* (database.py).                                                          *)
(*                                                                         *)
(* Updates are dispatched one at a time, so every handler is one atomic    *)
(* action (Spec); LoopSpec follows the update queue and the handler in     *)
(* progress across its call to the image backend.                          *)
(* A handler is written as a function from a "world" record (the           *)
(* mutable state plus the trace of the calls the handler has made so far)  *)
(* to a world record, so that handlers compose the way the Python calls    *)
(* do.                                                                     *)
(*                                                                         *)
(* A Python dict is a function whose DOMAIN is the set of keys present.    *)
(* Session keys that never influence control flow and are never read       *)
(* (image_file_id, target_username) are left out.                          *)
(***************************************************************************)
EXTENDS Integers, Sequences, FiniteSets, TLC

VARIABLES user_sessions, files, users_allowed, daily_usage,
          generation_logs, now, out, sender, steps, pending, current

vars == <<user_sessions, files, users_allowed, daily_usage,
          generation_logs, now, out, sender, steps, pending, current>>

-----------------------------------------------------------------------------
(* Program constants.  User ids are only ever compared for equality, so   *)
(* the owner's id (OWNER_USER_ID) is represented by 1.                    *)

OwnerId == 1
SessionTimeout == 600
DaySeconds == 86400
DailyLimit == 1
OwnerRemaining == 999
MaxRetries == 3

(* Bounds of the model *)

MaxSteps == 5
MaxTicks == 2

(* The users: the owner and one other user, who is in the allowed table   *)
(* or not depending on the stored database.  A handler touches only the   *)
(* session entry of the user who sent the update, so a behaviour follows  *)
(* the updates of one sender, who is either of the two, for MaxSteps      *)
(* updates.                                                               *)
Users == {OwnerId, 2}

None == "None"
NoPath == <<>>

-----------------------------------------------------------------------------
(* Dates.  date.today() is a date object; a DATE column written through   *)
(* the default adapter holds ISO text and, the connection being opened    *)
(* without detect_types, is read back as text.                            *)

DateObj(d) == <<"date", d>>
IsoText(d) == <<"str", d>>

today(t) == DateObj(t \div DaySeconds)

AdaptDate(d) == IsoText(d[2])

ReadDateColumn(v) == v

-----------------------------------------------------------------------------
(* dict helpers *)

Has(d, k) == k \in DOMAIN d

DictUpdate(d, e) ==
    [k \in (DOMAIN d) \cup (DOMAIN e) |-> IF k \in DOMAIN e THEN e[k] ELSE d[k]]

EmptyDict == [k \in {} |-> None]

DelKey(m, k) == [x \in (DOMAIN m) \ {k} |-> m[x]]

SetKey(m, k, v) == [x \in (DOMAIN m) \cup {k} |-> IF x = k THEN v ELSE m[x]]

(* truthiness of session.get('image_path') *)
PathOf(s) == IF Has(s, "image_path") THEN s["image_path"] ELSE NoPath

-----------------------------------------------------------------------------
(* The world a handler works on *)

World ==
    [user_sessions |-> user_sessions, files |-> files,
     users_allowed |-> users_allowed, daily_usage |-> daily_usage,
     generation_logs |-> generation_logs,
     msg |-> None, calls |-> <<>>, request |-> <<>>]

Call(w, c) == [w EXCEPT !.calls = Append(@, c)]

Reply(w, m) == [w EXCEPT !.msg = m]

-----------------------------------------------------------------------------
(* database.py *)

is_user_allowed(ua, u) == \E r \in ua : r.user_id = u

OwnerRow == [user_id |-> OwnerId, username |-> "owner",
             added_by_user_id |-> OwnerId, is_owner |-> TRUE]

MemberRow(u) == [user_id |-> u, username |-> "member",
                 added_by_user_id |-> OwnerId, is_owner |-> FALSE]

init_database(ua) ==
    IF is_user_allowed(ua, OwnerId) THEN ua ELSE ua \cup {OwnerRow}

(* Mutant: the inserted row is flagged as an owner's *)
add_user_as_owner(ua, u, name, by) ==
    IF is_user_allowed(ua, u)
    THEN [ok |-> FALSE, users_allowed |-> ua]
    ELSE [ok |-> TRUE,
          users_allowed |-> ua \cup {[user_id |-> u, username |-> name,
                                      added_by_user_id |-> by,
                                      is_owner |-> TRUE]}]

add_user(ua, u, name, by) ==
    IF is_user_allowed(ua, u)
    THEN [ok |-> FALSE, users_allowed |-> ua]
    ELSE [ok |-> TRUE,
          users_allowed |-> ua \cup {[user_id |-> u, username |-> name,
                                      added_by_user_id |-> by,
                                      is_owner |-> FALSE]}]

(* Mutant: the owner's row is deleted like any other *)
remove_user_unprotected(w, u) ==
    [ok |-> TRUE,
     w |-> [Call(w, "remove_user") EXCEPT
              !.users_allowed = {r \in @ : r.user_id # u},
              !.daily_usage = DelKey(@, u)]]

remove_user(w, u) ==
    IF \E r \in w.users_allowed : r.user_id = u /\ r.is_owner
    THEN [ok |-> FALSE, w |-> Call(w, "remove_user")]
    ELSE [ok |-> TRUE,
          w |-> [Call(w, "remove_user") EXCEPT
                   !.users_allowed = {r \in @ : r.user_id # u},
                   !.daily_usage = DelKey(@, u)]]

(* The comparison usage['last_generation_date'] != today *)
DateDiffers(stored, t) == ReadDateColumn(stored) # today(t)

can_user_generate(w, u, t) ==
    LET w1 == Call(w, "can_user_generate")
        du == w.daily_usage
        fresh == [last_generation_date |-> AdaptDate(today(t)),
                  generations_count |-> 0]
    IN  IF u = OwnerId
        THEN [w |-> w1,
              status |-> [can_generate |-> TRUE, is_owner |-> TRUE,
                          remaining |-> OwnerRemaining]]
        ELSE IF u \notin DOMAIN du
        THEN [w |-> [w1 EXCEPT !.daily_usage = SetKey(du, u, fresh)],
              status |-> [can_generate |-> TRUE, remaining |-> DailyLimit,
                          last_reset |-> today(t)]]
        ELSE IF DateDiffers(du[u].last_generation_date, t)
        THEN [w |-> [w1 EXCEPT !.daily_usage = SetKey(du, u, fresh)],
              status |-> [can_generate |-> TRUE, remaining |-> DailyLimit,
                          last_reset |-> today(t)]]
        ELSE IF du[u].generations_count >= DailyLimit
        THEN [w |-> w1,
              status |-> [can_generate |-> FALSE, remaining |-> 0,
                          last_reset |->
                              ReadDateColumn(du[u].last_generation_date)]]
        ELSE [w |-> w1,
              status |-> [can_generate |-> TRUE,
                          remaining |-> DailyLimit - du[u].generations_count,
                          last_reset |->
                              ReadDateColumn(du[u].last_generation_date)]]

record_generation(w, u, command_used, output_type, prompt_used, t) ==
    LET w1 == [Call(w, "record_generation") EXCEPT
                 !.generation_logs =
                     Append(@, [user_id |-> u, command_used |-> command_used,
                                output_type |-> output_type,
                                prompt_used |-> prompt_used])]
        du == w.daily_usage
    IN  IF u # OwnerId /\ u \in DOMAIN du
        THEN [w1 EXCEPT !.daily_usage =
                 SetKey(du, u,
                        [last_generation_date |-> AdaptDate(today(t)),
                         generations_count |-> du[u].generations_count + 1])]
        ELSE w1

get_user_daily_count(du, u) ==
    IF u \in DOMAIN du THEN du[u].generations_count ELSE 0

-----------------------------------------------------------------------------
(* bot.py: the session store *)

(* Mutant: a session expires when it is exactly the timeout old *)
Expired_at_timeout(s, t) ==
    Has(s, "last_activity") /\ t - s["last_activity"] >= SessionTimeout

Expired(s, t) ==
    Has(s, "last_activity") /\ t - s["last_activity"] > SessionTimeout

(* Mutant: an expired session loses its file and is kept *)
get_user_session_keeps_expired(w, u, t) ==
    IF u \notin DOMAIN w.user_sessions
    THEN [w EXCEPT !.user_sessions = SetKey(@, u, EmptyDict)]
    ELSE LET s == w.user_sessions[u]
         IN  IF Expired(s, t)
             THEN [w EXCEPT
                     !.files = IF PathOf(s) # NoPath THEN @ \ {PathOf(s)}
                               ELSE @]
             ELSE w

get_user_session(w, u, t) ==
    IF u \notin DOMAIN w.user_sessions
    THEN [w EXCEPT !.user_sessions = SetKey(@, u, EmptyDict)]
    ELSE LET s == w.user_sessions[u]
         IN  IF Expired(s, t)
             THEN [w EXCEPT
                     !.files = IF PathOf(s) # NoPath THEN @ \ {PathOf(s)}
                               ELSE @,
                     !.user_sessions = SetKey(@, u, EmptyDict)]
             ELSE w

clear_user_session(w, u) ==
    [Call(w, "clear_user_session") EXCEPT !.user_sessions = DelKey(@, u)]

is_owner(u) == u = OwnerId

(* os.remove inside try/except: the file, if there, is gone afterwards *)
RemoveFile(w, p) == [w EXCEPT !.files = @ \ {p}]

(* self.user_sessions[user_id] = {...} *)
InstallSession(w, u, s) ==
    [Call(w, "create_session") EXCEPT !.user_sessions = SetKey(@, u, s)]

(* session[...] = ... / session.update(...) on the dict stored for u *)
MutateSession(w, u, e) ==
    [w EXCEPT !.user_sessions = SetKey(@, u, DictUpdate(@[u], e))]

AsciiEntrySession ==
    [command |-> "ascii", step |-> "awaiting_aspect_ratio",
     aspect_ratio |-> None, text_input |-> None]

ImageEntrySession ==
    [command |-> "image", step |-> "awaiting_aspect_ratio",
     aspect_ratio |-> None, image_path |-> NoPath]

OutputTypeOf(aspect_ratio) ==
    IF aspect_ratio = "3:1" THEN "banner_3_1" ELSE "pfp_1_1"

-----------------------------------------------------------------------------
(* bot.py: entry checks *)

(* reply through update.message: a callback update has no message, so the *)
(* reply raises and the update ends in the global error handler           *)
ReplyViaMessage(w, viaCallback, m) ==
    IF viaCallback THEN Reply(w, "unexpected_error") ELSE Reply(w, m)

(* Mutant: the quota is looked up before the authorization check *)
_check_access_and_limit_quota_first(w, u, t, viaCallback) ==
    LET r == can_user_generate(w, u, t)
        w1 == Call(r.w, "is_user_allowed")
    IN  IF ~is_user_allowed(w.users_allowed, u)
        THEN [ok |-> FALSE, w |-> ReplyViaMessage(w1, viaCallback, "access_denied")]
        ELSE IF ~r.status["can_generate"]
        THEN [ok |-> FALSE,
              w |-> ReplyViaMessage(w1, viaCallback, "rate_limit_exceeded")]
        ELSE [ok |-> TRUE, w |-> w1]

_check_access_and_limit(w, u, t, viaCallback) ==
    LET w1 == Call(w, "is_user_allowed")
    IN  IF ~is_user_allowed(w.users_allowed, u)
        THEN [ok |-> FALSE, w |-> ReplyViaMessage(w1, viaCallback, "access_denied")]
        ELSE LET r == can_user_generate(w1, u, t)
             IN  IF ~r.status["can_generate"]
                 THEN [ok |-> FALSE,
                       w |-> ReplyViaMessage(r.w, viaCallback, "rate_limit_exceeded")]
                 ELSE [ok |-> TRUE, w |-> r.w]

-----------------------------------------------------------------------------------------------------------------------------------------------------
(* Inputs *)

NoArg == 0

Btn(name) == [name |-> name, arg |-> NoArg]

BtnArg(name, a) == [name |-> name, arg |-> a]

PlainButtons ==
    {"image_banner", "banner_3x1", "pfp_1x1", "cancel", "main_menu",
     "info_access", "view_commands", "help_main", "done", "back_to_menu",
     "ascii_again", "image_again", "generate_again", "image_start",
     "image_pfp", "image_auto", "image_custom_prompt", "ascii_banner",
     "ascii_pfp", "generate_banner", "generate_pfp", "help_ascii",
     "manage_add_user_start", "manage_remove_user", "manage_view_users",
     "manage_stats", "manage_menu", "noop"}

ArgButtons ==
    {"manage_remove_confirm_", "manage_remove_execute_",
     "manage_add_confirm_", "manage_users_page_"}

Callbacks ==
    {Btn(n) : n \in PlainButtons} \cup
    {BtnArg(n, a) : n \in ArgButtons, a \in Users}

(* callback_data.startswith(prefix) *)
StartsWith(name, prefix) ==
    CASE prefix = "image_" ->
           name \in {"image_banner", "image_pfp", "image_start", "image_auto",
                     "image_custom_prompt", "image_again"}
      [] prefix = "ascii_" ->
           name \in {"ascii_banner", "ascii_pfp", "ascii_again"}
      [] prefix = "generate_" ->
           name \in {"generate_banner", "generate_pfp", "generate_again"}
      [] prefix = "help_" -> name \in {"help_main", "help_ascii"}
      [] prefix = "manage_" ->
           name \in {"manage_add_user_start", "manage_remove_user",
                     "manage_view_users", "manage_stats", "manage_menu",
                     "manage_remove_confirm_", "manage_remove_execute_",
                     "manage_add_confirm_", "manage_users_page_"}
      [] OTHER -> FALSE

(* A text message: its text and the user it is forwarded from (0: none) *)
Messages ==
    {[text |-> "KARWA", forward_from |-> NoArg],
     [text |-> "2", forward_from |-> NoArg],
     [text |-> "KARWA", forward_from |-> 2]}

(* int(text.strip()); -1 stands for ValueError *)
ParseInt(text) ==
    CASE text = "1" -> 1
      [] text = "2" -> 2
      [] OTHER -> -1

(* What the generation backend and the delivery of its result do; an     *)
(* API error carries the response body, which may itself name a reason    *)
BackendErrors ==
    {"Insufficient credits", "Rate limit exceeded", "Read timed out",
     "API error: 500", "API error: 400 - Insufficient credits"}

Outcomes == {"ok", "none", "send_fail"} \cup BackendErrors

-----------------------------------------------------------------------------
(* Committing a handler's result *)

Commit(w, u, handler) ==
    /\ user_sessions' = w.user_sessions
    /\ files' = w.files
    /\ users_allowed' = w.users_allowed
    /\ daily_usage' = w.daily_usage
    /\ generation_logs' = w.generation_logs
    /\ out' = [user |-> u, handler |-> handler, msg |-> w.msg,
               calls |-> w.calls, request |-> w.request]
    /\ steps' = steps + 1
    /\ UNCHANGED <<now, sender, pending, current>>

(* An update of user u is dispatched *)
Dispatch(u) == u = sender /\ steps < MaxSteps

-----------------------------------------------------------------------------
(* Commands *)

AsciiCommandW(w, u, t) ==
    LET c == _check_access_and_limit(w, u, t, FALSE)
    IN  IF ~c.ok THEN c.w
        ELSE Reply(InstallSession(c.w, u, AsciiEntrySession), "ascii_choose_format")

ImageCommandW(w, u, t, viaCallback) ==
    LET c == _check_access_and_limit(w, u, t, viaCallback)
    IN  IF ~c.ok THEN c.w ELSE Reply(c.w, "image_choose_format")

GenerateCommandW(w, u, t, viaCallback) ==
    LET c == _check_access_and_limit(w, u, t, viaCallback)
    IN  IF ~c.ok THEN c.w
        ELSE ReplyViaMessage(c.w, viaCallback, "generate_choose_format")

StartCommandW(w, u, t) ==
    LET w1 == Call(w, "is_user_allowed")
    IN  IF ~is_user_allowed(w.users_allowed, u)
        THEN Reply(w1, "access_denied")
        ELSE LET r == can_user_generate(w1, u, t)
             IN  IF Has(r.status, "is_owner")
                 THEN Reply(r.w, "welcome")
                 ELSE Reply(r.w, "unexpected_error")

CommandsCommandW(w, u, t, viaCallback) ==
    LET w1 == Call(w, "is_user_allowed")
    IN  IF ~is_user_allowed(w.users_allowed, u)
        THEN ReplyViaMessage(w1, viaCallback, "access_denied")
        ELSE LET r == can_user_generate(Call(w1, "get_user_daily_count"), u, t)
             IN  IF Has(r.status, "is_owner")
                 THEN ReplyViaMessage(r.w, viaCallback, "commands_list")
                 ELSE Reply(r.w, "unexpected_error")

HelpCommandW(w, u) ==
    LET w1 == Call(w, "is_user_allowed")
    IN  IF ~is_user_allowed(w.users_allowed, u)
        THEN Reply(w1, "access_denied")
        ELSE Reply(w1, "help")

ManageCommandW(w, u) ==
    IF ~is_owner(u) THEN Reply(w, "owner_only")
    ELSE Reply(Call(Call(w, "get_usage_stats"), "get_all_users"),
               "management_menu")

start_command(u) ==
    /\ Dispatch(u)
    /\ \E w \in {StartCommandW(World, u, now)} : Commit(w, u, "start_command")

ascii_command(u) ==
    /\ Dispatch(u)
    /\ \E w \in {AsciiCommandW(World, u, now)} : Commit(w, u, "ascii_command")

image_command(u) ==
    /\ Dispatch(u)
    /\ \E w \in {ImageCommandW(World, u, now, FALSE)} : Commit(w, u, "image_command")

generate_command(u) ==
    /\ Dispatch(u)
    /\ \E w \in {GenerateCommandW(World, u, now, FALSE)} : Commit(w, u, "generate_command")

commands_command(u) ==
    /\ Dispatch(u)
    /\ \E w \in {CommandsCommandW(World, u, now, FALSE)} : Commit(w, u, "commands_command")

help_command(u) ==
    /\ Dispatch(u)
    /\ \E w \in {HelpCommandW(World, u)} : Commit(w, u, "help_command")

manage_command(u) ==
    /\ Dispatch(u)
    /\ \E w \in {ManageCommandW(World, u)} : Commit(w, u, "manage_command")

-----------------------------------------------------------------------------
(* handlers.py: generation workflows *)

Get(s, k) == IF Has(s, k) THEN s[k] ELSE None

TempPath(u, t) == <<u, t>>

(* substring tests made on the text of an exception *)
Mentions(e, what) ==
    CASE what = "credits" ->
           e \in {"Insufficient credits",
                  "API error: 400 - Insufficient credits"}
      [] what = "rate" -> e = "Rate limit exceeded"
      [] what = "timeout" -> e \in {"Read timed out", "Timed out"}
      [] what = "network" -> FALSE
      [] what = "api" ->
           e \in {"API error: 500", "API error: 400 - Insufficient credits",
                  "OpenRouter API returned no image data"}
      [] OTHER -> FALSE

(* Mutant: the service-unavailable test is made before the others *)
_handle_enhancement_error_api_first(w, e) ==
    Reply(w, IF Mentions(e, "api") THEN "service_unavailable"
             ELSE IF Mentions(e, "credits") THEN "credits_exhausted"
             ELSE IF Mentions(e, "rate") THEN "too_many_requests"
             ELSE IF Mentions(e, "timeout") THEN "generation_timed_out"
             ELSE IF Mentions(e, "network") THEN "network_error"
             ELSE "generation_failed")

_handle_enhancement_error(w, e) ==
    Reply(w, IF Mentions(e, "credits") THEN "credits_exhausted"
             ELSE IF Mentions(e, "rate") THEN "too_many_requests"
             ELSE IF Mentions(e, "timeout") THEN "generation_timed_out"
             ELSE IF Mentions(e, "network") THEN "network_error"
             ELSE IF Mentions(e, "api") THEN "service_unavailable"
             ELSE "generation_failed")

(* the format the instruction text sent to the model asks for: the text  *)
(* built around a custom prompt names aspect_ratio, the auto text is a    *)
(* fixed string                                                           *)
InstructionRatio(aspect_ratio, custom_prompt) ==
    IF custom_prompt # None THEN aspect_ratio ELSE "3:1"

(* image_config.aspect_ratio of the request body *)
ImageConfigRatio(aspect_ratio) ==
    IF aspect_ratio \in {"3:1", "banner_3_1"} THEN "21:9" ELSE "1:1"

EnhanceRequest(s) ==
    [kind |-> "enhance_image", aspect_ratio |-> Get(s, "aspect_ratio"),
     prompt |-> Get(s, "custom_prompt"),
     instruction_ratio |->
         InstructionRatio(Get(s, "aspect_ratio"), Get(s, "custom_prompt")),
     image_config |-> ImageConfigRatio(Get(s, "aspect_ratio"))]

(* raised is TRUE when the call fails before its try block: user_id is    *)
(* read as query.from_user, which an Update object does not have          *)
_process_image_enhancement(w, u, oc, t, hasFromUser) ==
    LET s == w.user_sessions[u]
        image_path == PathOf(s)
        called == [Call(w, "enhance_image") EXCEPT !.request = EnhanceRequest(s)]
        sent == Call(called, "reply_photo")
        body ==
            IF image_path = NoPath \/ image_path \notin w.files
            THEN _handle_enhancement_error(w, "Image file not found")
            ELSE IF oc \in BackendErrors
            THEN _handle_enhancement_error(called, oc)
            ELSE IF oc = "none"
            THEN _handle_enhancement_error(called,
                     "OpenRouter API returned no image data")
            ELSE IF oc = "send_fail"
            THEN _handle_enhancement_error(sent, "Timed out")
            ELSE IF ~Has(s, "output_type")
            THEN _handle_enhancement_error(sent, "'output_type'")
            ELSE record_generation(Reply(sent, "image_generated"), u, "image",
                     s["output_type"],
                     IF Get(s, "custom_prompt") = None THEN "Auto prompt"
                     ELSE s["custom_prompt"], t)
        cleaned == IF image_path # NoPath THEN RemoveFile(body, image_path)
                   ELSE body
    IN  IF ~hasFromUser
        THEN [raised |-> TRUE, w |-> w]
        ELSE [raised |-> FALSE, w |-> clear_user_session(cleaned, u)]

(* Mutant: the generation is recorded before the image is sent *)
_handle_ascii_text_records_first(w, u, m, oc, t) ==
    LET s == w.user_sessions[u]
        w1 == MutateSession(w, u, [text_input |-> m.text, step |-> "processing"])
        w2 == MutateSession(w1, u,
                  [output_type |-> OutputTypeOf(s["aspect_ratio"])])
        w3 == [Call(w2, "generate_ascii_art") EXCEPT
                 !.request = [kind |-> "generate_ascii_art",
                              aspect_ratio |-> s["aspect_ratio"],
                              prompt |-> m.text]]
        w4 == record_generation(w3, u, "ascii",
                                OutputTypeOf(s["aspect_ratio"]), m.text, t)
    IN  IF ~Has(s, "aspect_ratio") THEN Reply(w1, "unexpected_error")
        ELSE IF oc = "ok"
        THEN clear_user_session(
                 Reply(Call(w4, "reply_photo"), "ascii_generated"), u)
        ELSE IF oc = "send_fail"
        THEN Reply(Call(w4, "reply_photo"), "technical_error")
        ELSE Reply(w3, "ascii_failed")

_handle_ascii_text(w, u, m, oc, t) ==
    LET s == w.user_sessions[u]
        w1 == MutateSession(w, u, [text_input |-> m.text, step |-> "processing"])
        w2 == MutateSession(w1, u,
                  [output_type |-> OutputTypeOf(s["aspect_ratio"])])
        w3 == [Call(w2, "generate_ascii_art") EXCEPT
                 !.request = [kind |-> "generate_ascii_art",
                              aspect_ratio |-> s["aspect_ratio"],
                              prompt |-> m.text]]
    IN  IF ~Has(s, "aspect_ratio") THEN Reply(w1, "unexpected_error")
        ELSE IF oc = "ok"
        THEN clear_user_session(
                 record_generation(
                     Reply(Call(w3, "reply_photo"), "ascii_generated"),
                     u, "ascii", OutputTypeOf(s["aspect_ratio"]), m.text, t),
                 u)
        ELSE IF oc = "send_fail"
        THEN Reply(Call(w3, "reply_photo"), "technical_error")
        ELSE Reply(w3, "ascii_failed")

(* self.gemini does not exist on BotHandlers: the lookup raises inside    *)
(* the try block, before any request is made                              *)
_handle_generate_text(w, u, m, oc, t) == Reply(w, "technical_error")

_handle_image_custom_prompt(w, u, m, oc, t) ==
    LET w1 == MutateSession(w, u, [step |-> "processing",
                                   custom_prompt |-> m.text,
                                   last_activity |-> t])
        r == _process_image_enhancement(w1, u, oc, t, FALSE)
    IN  IF r.raised THEN Reply(r.w, "processing_failed") ELSE r.w

(* Mutant: the custom choice starts the enhancement like the auto choice *)
_handle_image_prompt_selection_always_auto(w, u, cb, oc, t) ==
    LET s == w.user_sessions[u]
        auto == MutateSession(w, u, [prompt_type |-> "auto",
                                     step |-> "processing",
                                     custom_prompt |-> None,
                                     last_activity |-> t])
        r == _process_image_enhancement(auto, u, oc, t, TRUE)
    IN  IF PathOf(s) = NoPath
        THEN clear_user_session(Reply(w, "image_not_found"), u)
        ELSE r.w

_handle_image_prompt_selection(w, u, cb, oc, t) ==
    LET s == w.user_sessions[u]
        auto == MutateSession(w, u, [prompt_type |-> "auto",
                                     step |-> "processing",
                                     custom_prompt |-> None,
                                     last_activity |-> t])
        r == _process_image_enhancement(auto, u, oc, t, TRUE)
    IN  IF PathOf(s) = NoPath
        THEN clear_user_session(Reply(w, "image_not_found"), u)
        ELSE IF cb.name = "image_auto"
        THEN (IF r.raised THEN Reply(r.w, "generation_failed") ELSE r.w)
        ELSE IF cb.name = "image_custom_prompt"
        THEN Reply(MutateSession(w, u, [prompt_type |-> "custom",
                                        step |-> "awaiting_custom_prompt",
                                        last_activity |-> t]),
                   "ask_custom_prompt")
        ELSE Reply(w, "invalid_selection")

_handle_image_selection(w, u, cb, t) ==
    LET w1 == get_user_session(w, u, t)
        aspect_ratio == IF cb.name = "image_banner" THEN "3:1" ELSE "1:1"
    IN  Reply(MutateSession(w1, u,
                  [command |-> "image", step |-> "awaiting_image",
                   aspect_ratio |-> aspect_ratio,
                   output_type |-> OutputTypeOf(aspect_ratio),
                   last_activity |-> t]),
              "image_send_image")

_handle_generate_selection(w, u, cb, t) ==
    LET w1 == get_user_session(w, u, t)
        aspect_ratio == IF cb.name = "generate_banner" THEN "3:1" ELSE "1:1"
    IN  Reply(MutateSession(w1, u,
                  [command |-> "generate", step |-> "awaiting_text",
                   aspect_ratio |-> aspect_ratio,
                   output_type |-> OutputTypeOf(aspect_ratio),
                   last_activity |-> t]),
              "generate_send_text")

(* Mutant: cancel answers differently when there is nothing to cancel *)
_handle_cancel_needs_session(w, u, t) ==
    LET w1 == get_user_session(w, u, t)
        s == w1.user_sessions[u]
        w2 == IF PathOf(s) # NoPath /\ PathOf(s) \in w1.files
              THEN RemoveFile(Call(w1, "os.remove"), PathOf(s))
              ELSE w1
    IN  IF DOMAIN s = {} THEN Reply(w1, "nothing_to_cancel")
        ELSE Reply(clear_user_session(w2, u), "cancel_done")

(* Mutant: cancel clears the session and leaves its temp file behind *)
_handle_cancel_keeps_file(w, u, t) ==
    Reply(clear_user_session(get_user_session(w, u, t), u), "cancel_done")

_handle_cancel(w, u, t) ==
    LET w1 == get_user_session(w, u, t)
        s == w1.user_sessions[u]
        w2 == IF PathOf(s) # NoPath /\ PathOf(s) \in w1.files
              THEN RemoveFile(Call(w1, "os.remove"), PathOf(s))
              ELSE w1
    IN  Reply(clear_user_session(w2, u), "cancel_done")

SleepCall(attempt) ==
    CASE attempt = 0 -> "sleep_1"
      [] attempt = 1 -> "sleep_2"
      [] OTHER -> "sleep_4"

(* Mutant: the wait is made after every failed attempt, the last too *)
RECURSIVE DownloadCalls_waits_after_last(_, _)
DownloadCalls_waits_after_last(fails, attempt) ==
    IF attempt >= MaxRetries THEN <<>>
    ELSE IF fails > attempt
    THEN <<"download_failed", SleepCall(attempt)>> \o
         DownloadCalls_waits_after_last(fails, attempt + 1)
    ELSE <<"download_ok">>

RECURSIVE DownloadCalls(_, _)
DownloadCalls(fails, attempt) ==
    IF attempt >= MaxRetries THEN <<>>
    ELSE IF fails > attempt
    THEN <<"download_failed">> \o
         (IF attempt < MaxRetries - 1 THEN <<SleepCall(attempt)>> ELSE <<>>) \o
         DownloadCalls(fails, attempt + 1)
    ELSE <<"download_ok">>

(* fails: how many download attempts fail before one succeeds *)
_handle_image_upload(w, u, fails, t) ==
    LET w1 == [w EXCEPT !.calls = @ \o DownloadCalls(fails, 0)]
    IN  IF fails >= MaxRetries
        THEN Reply(w1, "download_failed")
        ELSE Reply(MutateSession(
                       [w1 EXCEPT !.files = @ \cup {TempPath(u, t)}], u,
                       [command |-> "image", step |-> "awaiting_prompt_type",
                        image_path |-> TempPath(u, t), last_activity |-> t]),
                   "image_saved")

-----------------------------------------------------------------------------
(* admin_handlers.py *)

_start_add_user_flow(w, u, t) ==
    Reply(MutateSession(get_user_session(w, u, t), u,
                        [command |-> "manage_add_user"]),
          "add_user_prompt")

(* the users offered for removal: [u for u in users if not u['is_owner']] *)
RemovableUsers(ua) == {r.user_id : r \in {x \in ua : ~x.is_owner}}

_show_remove_user_list(w) ==
    LET w1 == Call(w, "get_all_users")
    IN  IF w.users_allowed = {} THEN Reply(w1, "no_users")
        ELSE IF RemovableUsers(w.users_allowed) = {}
        THEN Reply(w1, "no_removable_users")
        ELSE Reply(w1, "remove_user_list")

_confirm_remove_user(w, target) ==
    LET w1 == Call(w, "get_all_users")
    IN  IF ~is_user_allowed(w.users_allowed, target)
        THEN Reply(w1, "user_not_found")
        ELSE IF \E r \in w.users_allowed : r.user_id = target /\ r.is_owner
        THEN Reply(w1, "cannot_remove_owner")
        ELSE Reply(w1, "remove_confirm")

_execute_remove_user(w, target) ==
    LET w1 == Call(w, "get_all_users")
        r == remove_user(w1, target)
    IN  IF ~is_user_allowed(w.users_allowed, target)
        THEN Reply(w1, "user_not_found")
        ELSE IF r.ok THEN Reply(r.w, "user_removed")
        ELSE Reply(r.w, "remove_failed")

(* no caller: callback_handler and _handle_management_callbacks have no   *)
(* branch for manage_add_confirm_<id>                                     *)
_confirm_add_user(w, u, t) ==
    LET w1 == get_user_session(w, u, t)
        session == w1.user_sessions[u]
        r == add_user(w1.users_allowed, session["target_user_id"], "member", u)
        w2 == [Call(w1, "add_user") EXCEPT !.users_allowed = r.users_allowed]
    IN  IF ~Has(session, "target_user_id")
        THEN Reply(w1, "session_expired")
        ELSE clear_user_session(
                 Reply(w2, IF r.ok THEN "user_added" ELSE "add_failed"), u)

_handle_management_callbacks(w, u, cb, t) ==
    CASE cb.name = "manage_add_user_start" -> _start_add_user_flow(w, u, t)
      [] cb.name = "manage_remove_user" -> _show_remove_user_list(w)
      [] cb.name = "manage_view_users" ->
           Reply(Call(w, "get_all_users"), "users_page")
      [] cb.name = "manage_stats" ->
           Reply(Call(w, "get_usage_stats"), "usage_stats")
      [] cb.name = "manage_remove_confirm_" -> _confirm_remove_user(w, cb.arg)
      [] cb.name = "manage_remove_execute_" -> _execute_remove_user(w, cb.arg)
      [] cb.name = "manage_users_page_" ->
           Reply(Call(w, "get_all_users"), "users_page")
      [] OTHER -> w

_handle_manage_add_user(w, u, m) ==
    LET parsed == ParseInt(m.text)
        target == IF m.forward_from # NoArg THEN m.forward_from ELSE parsed
        w1 == Call(w, "is_user_allowed")
    IN  IF m.forward_from = NoArg /\ parsed = -1
        THEN Reply(w, "invalid_user_id")
        ELSE IF is_user_allowed(w.users_allowed, target)
        THEN clear_user_session(Reply(w1, "already_allowed"), u)
        ELSE Reply(MutateSession(w1, u, [target_user_id |-> target]),
                   "add_user_confirm")

-----------------------------------------------------------------------------
(* bot.py: routing *)

CallbackHandlerW(w, u, cb, oc, t) ==
    IF cb.name = "image_banner"
    THEN Reply(InstallSession(w, u, ImageEntrySession), "image_choose_ratio")
    ELSE IF cb.name \in {"banner_3x1", "pfp_1x1"}
    THEN IF u \notin DOMAIN w.user_sessions \/ DOMAIN w.user_sessions[u] = {}
         THEN Reply(w, "session_expired")
         ELSE LET aspect_ratio == IF cb.name = "banner_3x1" THEN "3:1" ELSE "1:1"
              IN  Reply(MutateSession(w, u,
                            [aspect_ratio |-> aspect_ratio,
                             step |-> "awaiting_image",
                             output_type |-> OutputTypeOf(aspect_ratio)]),
                        "image_send_image")
    ELSE
    LET w1 == get_user_session(w, u, t)
        session == w1.user_sessions[u]
        current_step == Get(session, "step")
    IN  IF cb.name = "cancel" THEN _handle_cancel(w1, u, t)
        ELSE IF cb.name = "main_menu"
        THEN Reply([Call(w1, "del_session") EXCEPT
                      !.user_sessions = DelKey(@, u)], "main_menu")
        ELSE IF cb.name = "info_access" THEN Reply(w1, "info_access")
        ELSE IF cb.name = "view_commands" THEN CommandsCommandW(w1, u, t, TRUE)
        ELSE IF cb.name = "help_main" THEN Reply(w1, "help_main")
        ELSE IF cb.name = "ascii_again"
        THEN Reply(InstallSession(w1, u, AsciiEntrySession), "ascii_choose_ratio")
        ELSE IF cb.name \in {"done", "back_to_menu"}
        THEN Reply([Call(IF Has(session, "image_path")
                         THEN RemoveFile(Call(w1, "os.remove"),
                                         session["image_path"])
                         ELSE w1, "del_session") EXCEPT
                      !.user_sessions = DelKey(@, u)], "done_menu")
        ELSE IF cb.name = "image_again" THEN ImageCommandW(w1, u, t, TRUE)
        ELSE IF cb.name = "generate_again" THEN GenerateCommandW(w1, u, t, TRUE)
        ELSE IF DOMAIN session = {} THEN Reply(w1, "session_expired")
        ELSE IF cb.name = "image_start" THEN ImageCommandW(w1, u, t, TRUE)
        ELSE IF StartsWith(cb.name, "image_")
                /\ current_step \in {None, "select_ratio"}
        THEN _handle_image_selection(w1, u, cb, t)
        ELSE IF cb.name \in {"image_auto", "image_custom_prompt"}
                /\ current_step = "awaiting_prompt_type"
        THEN _handle_image_prompt_selection(w1, u, cb, oc, t)
        ELSE IF StartsWith(cb.name, "ascii_")
        THEN LET aspect_ratio ==
                     IF cb.name = "ascii_banner" THEN "3:1" ELSE "1:1"
             IN  Reply(MutateSession(w1, u, [aspect_ratio |-> aspect_ratio,
                                             step |-> "awaiting_text"]),
                       "ascii_send_text")
        ELSE IF StartsWith(cb.name, "generate_")
        THEN _handle_generate_selection(w1, u, cb, t)
        ELSE IF StartsWith(cb.name, "help_") THEN Reply(w1, "help_page")
        ELSE IF StartsWith(cb.name, "manage_")
        THEN _handle_management_callbacks(w1, u, cb, t)
        ELSE Reply(w1, "something_went_wrong")

MessageHandlerW(w, u, m, oc, t) ==
    LET w1 == get_user_session(w, u, t)
        session == w1.user_sessions[u]
        command == Get(session, "command")
        step == Get(session, "step")
    IN  IF ~Has(session, "command") THEN w1
        ELSE IF command = "ascii" /\ step = "awaiting_text"
        THEN _handle_ascii_text(w1, u, m, oc, t)
        ELSE IF command = "image" /\ step = "awaiting_custom_prompt"
        THEN _handle_image_custom_prompt(w1, u, m, oc, t)
        ELSE IF command = "generate" /\ step = "awaiting_text"
        THEN _handle_generate_text(w1, u, m, oc, t)
        ELSE IF command = "manage_add_user"
        THEN _handle_manage_add_user(w1, u, m)
        ELSE IF command = "ascii" THEN _handle_ascii_text(w1, u, m, oc, t)
        ELSE IF command = "image_custom"
        THEN _handle_image_custom_prompt(w1, u, m, oc, t)
        ELSE IF command = "generate" THEN _handle_generate_text(w1, u, m, oc, t)
        ELSE w1

(* Mutant: a photo is taken at any step of the image workflow *)
PhotoHandlerW_any_step(w, u, fails, t) ==
    LET w1 == get_user_session(w, u, t)
        session == w1.user_sessions[u]
    IN  IF Get(session, "command") = "image"
        THEN _handle_image_upload(w1, u, fails, t)
        ELSE Reply(w1, "use_image_first")

PhotoHandlerW(w, u, fails, t) ==
    LET w1 == get_user_session(w, u, t)
        session == w1.user_sessions[u]
    IN  IF Get(session, "command") = "image"
           /\ Get(session, "step") = "awaiting_image"
        THEN _handle_image_upload(w1, u, fails, t)
        ELSE Reply(w1, "use_image_first")

callback_handler(u, cb, oc) ==
    /\ Dispatch(u)
    /\ \E w \in {CallbackHandlerW(World, u, cb, oc, now)} : Commit(w, u, "callback_handler")

message_handler(u, m, oc) ==
    /\ Dispatch(u)
    /\ \E w \in {MessageHandlerW(World, u, m, oc, now)} : Commit(w, u, "message_handler")

photo_handler(u, fails) ==
    /\ Dispatch(u)
    /\ \E w \in {PhotoHandlerW(World, u, fails, now)} : Commit(w, u, "photo_handler")

-----------------------------------------------------------------------------
(* Time *)

(* The bot is started at 23:50:00 of day 0; time passes in multiples of   *)
(* the session timeout, so that a session can be found exactly at the     *)
(* timeout (which crosses midnight) or past it.                           *)
StartTime == DaySeconds - SessionTimeout

Tick(k) ==
    /\ steps < MaxSteps
    /\ now + k * SessionTimeout <= StartTime + MaxTicks * SessionTimeout
    /\ now' = now + k * SessionTimeout
    /\ steps' = steps + 1
    /\ out' = [user |-> 0, handler |-> None, msg |-> "tick",
               calls |-> <<>>, request |-> <<>>]
    /\ UNCHANGED <<user_sessions, files, users_allowed, daily_usage,
                   generation_logs, sender, pending, current>>

-----------------------------------------------------------------------------

(* an update: who sent it, what it is, and whose handler was in progress  *)
(* when it arrived (0: nobody's)                                          *)
NoUpdate == [user |-> 0, kind |-> None, data |-> None, during |-> 0]

Init ==
    /\ pending = <<>>
    /\ current = [update |-> NoUpdate, at |-> "done"]
    /\ user_sessions = EmptyDict
    /\ files = {}
    /\ users_allowed \in {init_database({}),
                          init_database({MemberRow(2)})}
    /\ daily_usage = EmptyDict
    /\ generation_logs = <<>>
    /\ now = StartTime
    /\ sender \in Users
    /\ steps = 0
    /\ out = [user |-> 0, handler |-> None, msg |-> "init", calls |-> <<>>,
              request |-> <<>>]

(* The outcomes an event can have: only image_auto reaches the image     *)
(* backend, whose failures are told apart; generate_ascii_art turns every *)
(* failure into "no image"                                                *)
CallbackOutcomes(cb) ==
    IF cb.name = "image_auto" THEN Outcomes ELSE {"ok"}

MessageOutcomes == {"ok", "none", "send_fail"}

Next ==
    \/ \E k \in 1..MaxTicks : Tick(k)
    \/ \E u \in Users : start_command(u)
    \/ \E u \in Users : ascii_command(u)
    \/ \E u \in Users : image_command(u)
    \/ \E u \in Users : generate_command(u)
    \/ \E u \in Users : commands_command(u)
    \/ \E u \in Users : help_command(u)
    \/ \E u \in Users : manage_command(u)
    \/ \E u \in Users, cb \in Callbacks : \E oc \in CallbackOutcomes(cb) :
           callback_handler(u, cb, oc)
    \/ \E u \in Users, m \in Messages, oc \in MessageOutcomes :
           message_handler(u, m, oc)
    \/ \E u \in Users, fails \in 0..MaxRetries : photo_handler(u, fails)

Spec == Init /\ [][Next]_vars

-----------------------------------------------------------------------------
(* The authorization store on its own: DatabaseManager's operations on    *)
(* users_allowed called in any order, as the bot's restarts               *)
(* (init_database) and its admin code call them.                          *)

DbIds == Users \cup {3}

DbNames == {"member", "other"}

DbOut(op, u, ok) ==
    [user |-> u, handler |-> op, msg |-> IF ok THEN "ok" ELSE "failed",
     calls |-> <<op>>, request |-> <<>>]

DbStep ==
    /\ steps < MaxSteps
    /\ steps' = steps + 1
    /\ UNCHANGED <<user_sessions, files, generation_logs, now, sender,
                   pending, current>>

db_init_database ==
    /\ DbStep
    /\ users_allowed' = init_database(users_allowed)
    /\ out' = DbOut("init_database", OwnerId, TRUE)
    /\ UNCHANGED daily_usage

db_add_user(u, name, by) ==
    /\ DbStep
    /\ \E r \in {add_user(users_allowed, u, name, by)} :
           /\ users_allowed' = r.users_allowed
           /\ out' = DbOut("add_user", u, r.ok)
    /\ UNCHANGED daily_usage

db_remove_user(u) ==
    /\ DbStep
    /\ \E r \in {remove_user(World, u)} :
           /\ users_allowed' = r.w.users_allowed
           /\ daily_usage' = r.w.daily_usage
           /\ out' = DbOut("remove_user", u, r.ok)

DbInit == Init

DbNext ==
    \/ db_init_database
    \/ \E u \in DbIds, name \in DbNames, by \in Users : db_add_user(u, name, by)
    \/ \E u \in DbIds : db_remove_user(u)

DbSpec == DbInit /\ [][DbNext]_vars

-----------------------------------------------------------------------------
(* Properties *)

(* the handler that ran last made the call c *)
Called(c) == \E i \in 1..Len(out.calls) : out.calls[i] = c

(* every call b the given handler run made comes after a call a *)
Precedes(calls, a, b) ==
    \A j \in 1..Len(calls) :
        calls[j] = b => \E i \in 1..(j - 1) : calls[i] = a

NonOwners == Users \ {OwnerId}

EntryCommands == {"ascii_command", "image_command", "generate_command"}

HasSession(u) == u \in DOMAIN user_sessions

(* the world after the step, for reading the store as the next handler will *)
WorldAfter ==
    [World EXCEPT !.user_sessions = user_sessions', !.files = files']

(* C1: a user who is not in the allowed table never has a session entry   *)
(* with a 'command' set, whatever events they send.                       *)
C1_NoWorkflowForNotAllowed ==
    \A u \in Users :
        ~is_user_allowed(users_allowed, u) =>
            ~(HasSession(u) /\ Has(user_sessions[u], "command"))

(* C2: the number of generations recorded for a non-owner on the current  *)
(* date (generations_count of a row dated today) is at most one.          *)
C2_AtMostOnePerDay ==
    \A u \in NonOwners :
        (u \in DOMAIN daily_usage
         /\ daily_usage[u].last_generation_date = AdaptDate(today(now)))
        => get_user_daily_count(daily_usage, u) <= 1

(* C3: for a non-owner with no usage record can_user_generate answers     *)
(* can_generate = true, remaining = 1; once one generation is recorded    *)
(* for them on the current date it answers can_generate = false,          *)
(* remaining = 0.                                                         *)
C3_OneRecordExhaustsQuota ==
    \A u \in NonOwners :
        LET st == can_user_generate(World, u, now).status
        IN  /\ u \notin DOMAIN daily_usage
               => st["can_generate"] /\ st["remaining"] = 1
            /\ (u \in DOMAIN daily_usage
                /\ daily_usage[u].generations_count = 1
                /\ daily_usage[u].last_generation_date = AdaptDate(today(now)))
               => ~st["can_generate"] /\ st["remaining"] = 0

(* C4: a handler that invokes a generation backend has called             *)
(* can_user_generate before it does so.                                   *)
C4_QuotaRecheckedBeforeProcessing ==
    /\ Precedes(out.calls, "can_user_generate", "generate_ascii_art")
    /\ Precedes(out.calls, "can_user_generate", "enhance_image")

(* C5: at /ascii, /image and /generate the authorization check comes      *)
(* before the quota check, which comes before the session is created; a   *)
(* user who is not allowed gets the access-denied reply without           *)
(* can_user_generate being called and with the quota store and the        *)
(* session map unchanged; an allowed user whose can_generate is false     *)
(* gets the rate-limit reply and no session.                              *)
C5_Step ==
    out'.handler \in EntryCommands =>
        LET u == out'.user
            calls == out'.calls
        IN  /\ Precedes(calls, "is_user_allowed", "can_user_generate")
            /\ Precedes(calls, "can_user_generate", "create_session")
            /\ ~is_user_allowed(users_allowed, u) =>
                   /\ out'.msg = "access_denied"
                   /\ \A i \in 1..Len(calls) : calls[i] # "can_user_generate"
                   /\ daily_usage' = daily_usage
                   /\ user_sessions' = user_sessions
            /\ (is_user_allowed(users_allowed, u)
                /\ ~can_user_generate(World, u, now).status["can_generate"]) =>
                   /\ out'.msg = "rate_limit_exceeded"
                   /\ \A i \in 1..Len(calls) : calls[i] # "create_session"
                   /\ user_sessions' = user_sessions

C5_EntryOrder == [][C5_Step]_vars

(* an entry command of a user who is not allowed has just been refused *)
C5_Witness ==
    /\ out.handler \in EntryCommands
    /\ out.msg = "access_denied"
    /\ ~is_user_allowed(users_allowed, out.user)
    /\ out.calls = <<"is_user_allowed">>

(* C6: after /ascii, /image or /generate has passed its checks, the user  *)
(* has a session whose command is the workflow entered and whose step is  *)
(* awaiting_aspect_ratio.                                                 *)
C6_EntryCreatesSession ==
    \A c \in {"ascii", "image", "generate"} :
        (out.handler = c \o "_command" /\ out.msg = c \o "_choose_format")
        => /\ HasSession(out.user)
           /\ Get(user_sessions[out.user], "command") = c
           /\ Get(user_sessions[out.user], "step") = "awaiting_aspect_ratio"

(* C7: when a handler has returned, no session is at step 'processing'.   *)
C7_ProcessingIsTerminal ==
    \A u \in DOMAIN user_sessions :
        Get(user_sessions[u], "step") # "processing"

(* C8: whenever a step removes a user's session (the entry is deleted or  *)
(* replaced by the empty session) and that session held an image_path,    *)
(* the file at that path no longer exists after the step.                 *)
C8_Step ==
    \A u \in DOMAIN user_sessions :
        (PathOf(user_sessions[u]) # NoPath
         /\ (u \notin DOMAIN user_sessions'
             \/ DOMAIN user_sessions'[u] = {}))
        => PathOf(user_sessions[u]) \notin files'

C8_NoFileOutlivesSession == [][C8_Step]_vars

(* C9: when /ascii, image_banner or ascii_again installs a new session    *)
(* over one that holds an image_path, the file at that path no longer     *)
(* exists after the step.                                                 *)
C9_Step ==
    (out'.msg \in {"ascii_choose_format", "image_choose_ratio",
                   "ascii_choose_ratio"}
     /\ HasSession(out'.user))
    => LET p == PathOf(user_sessions[out'.user])
       IN  p # NoPath => p \notin files'

C9_OverwriteReleasesFile == [][C9_Step]_vars

(* C10: cancel is accepted in every state; after it the file of the       *)
(* user's session, if there was one, does not exist, the user has no      *)
(* session entry, and the next get_user_session gives the empty session.  *)
C10_Accepted ==
    CallbackHandlerW(World, sender, Btn("cancel"), "ok", now).msg
        = "cancel_done"

C10_Step ==
    out'.msg = "cancel_done" =>
        LET u == out'.user
        IN  /\ (HasSession(u) /\ PathOf(user_sessions[u]) # NoPath)
                   => PathOf(user_sessions[u]) \notin files'
            /\ u \notin DOMAIN user_sessions'
            /\ get_user_session(WorldAfter, u, now').user_sessions[u]
                   = EmptyDict

C10_CancelFromAnyStep == []C10_Accepted /\ [][C10_Step]_vars

(* a cancel has just removed the temp file of a session and the session *)
C10_Witness ==
    /\ out.msg = "cancel_done"
    /\ Called("os.remove")
    /\ ~HasSession(out.user)
    /\ files = {}

-----------------------------------------------------------------------------

(* the world as the next handler finds it after a handler returned w *)
Settled(w) == [w EXCEPT !.msg = None, !.calls = <<>>, !.request = <<>>]

StoresOf(w) ==
    <<w.user_sessions, w.files, w.users_allowed, w.daily_usage,
      w.generation_logs>>

CancelOf(w) == CallbackHandlerW(w, sender, Btn("cancel"), "ok", now)

(* C11: cancel never raises and always answers with the same message; a   *)
(* cancel for a user with no session leaves the state as it was (no       *)
(* session entry); a second cancel right after a cancel gives the same    *)
(* message and the same state as the first.                               *)
C11_CancelIdempotent ==
    LET first == CancelOf(World)
        second == CancelOf(Settled(first))
    IN  /\ first.msg = "cancel_done"
        /\ sender \notin DOMAIN first.user_sessions
        /\ second.msg = first.msg
        /\ StoresOf(second) = StoresOf(first)
        /\ ~HasSession(sender) => StoresOf(first) = StoresOf(World)

(* a session holding a file has just been cancelled, and a second cancel  *)
(* changes nothing and answers the same                                   *)
C11_Witness ==
    /\ out.msg = "cancel_done"
    /\ Called("os.remove")
    /\ CancelOf(World).msg = out.msg
    /\ StoresOf(CancelOf(World)) = StoresOf(World)

-----------------------------------------------------------------------------

(* the button, text and photo events of the sender, and their handling *)
UserEvents ==
    {<<"callback", cb>> : cb \in Callbacks} \cup
    {<<"message", m>> : m \in Messages} \cup
    {<<"photo", 0>>}

Handle(w, e, t) ==
    CASE e[1] = "callback" -> CallbackHandlerW(w, sender, e[2], "ok", t)
      [] e[1] = "message" -> MessageHandlerW(w, sender, e[2], "ok", t)
      [] OTHER -> PhotoHandlerW(w, sender, e[2], t)

(* the world with the sender's session expired: its file released and the *)
(* session replaced by the empty one                                      *)
Lapsed(w) ==
    [w EXCEPT !.files = @ \ {PathOf(w.user_sessions[sender])},
              !.user_sessions = SetKey(@, sender, EmptyDict)]

(* C12: when more than the session timeout passes with no event, the      *)
(* sender's session, whatever its workflow and step, is treated as absent *)
(* by the next event: the event is handled as it would be against the     *)
(* empty session with the old session's file released.                    *)
C12_Step ==
    (/\ out'.msg = "tick"
     /\ now' - now > SessionTimeout
     /\ HasSession(sender)
     /\ DOMAIN user_sessions[sender] # {})
    => \A e \in UserEvents :
           LET got == Handle(World, e, now')
               want == Handle(Lapsed(World), e, now')
           IN  /\ StoresOf(got) = StoresOf(want)
               /\ got.msg = want.msg

C12_IdleExpiry == [][C12_Step]_vars

-----------------------------------------------------------------------------

(* the step taken is the run of the named handler that returned w *)
Took(w, handler) ==
    /\ out' = [user |-> sender, handler |-> handler, msg |-> w.msg,
               calls |-> w.calls, request |-> w.request]
    /\ user_sessions' = w.user_sessions
    /\ files' = w.files
    /\ users_allowed' = w.users_allowed
    /\ daily_usage' = w.daily_usage
    /\ generation_logs' = w.generation_logs

(* the sender's session as an event at time t should find it: the stored  *)
(* one, or the empty one when there is none or it has expired             *)
LiveSession(w, t) ==
    IF sender \in DOMAIN w.user_sessions
       /\ ~Expired(w.user_sessions[sender], t)
    THEN w.user_sessions[sender]
    ELSE EmptyDict

WorkflowFields(s) ==
    <<Get(s, "command"), Get(s, "step"), Get(s, "aspect_ratio"),
      Get(s, "output_type")>>

SessionAfter(w) ==
    IF sender \in DOMAIN w.user_sessions THEN w.user_sessions[sender]
    ELSE EmptyDict

AspectButtons ==
    {"banner_3x1", "pfp_1x1", "ascii_banner", "ascii_pfp",
     "generate_banner", "generate_pfp"}

WorkflowOf(button) ==
    IF button \in {"banner_3x1", "pfp_1x1"} THEN "image"
    ELSE IF button \in {"ascii_banner", "ascii_pfp"} THEN "ascii"
    ELSE "generate"

(* C13: an aspect-ratio button pressed when the session is not at step    *)
(* awaiting_aspect_ratio of the button's workflow leaves command, step,   *)
(* aspect_ratio and output_type of the session as they were and is        *)
(* answered with the expired / invalid-state message.                     *)
C13_Step ==
    \A b \in AspectButtons :
        LET got == CallbackHandlerW(World, sender, Btn(b), "ok", now)
            s == LiveSession(World, now)
        IN  (/\ Took(got, "callback_handler")
             /\ ~(Get(s, "command") = WorkflowOf(b)
                  /\ Get(s, "step") = "awaiting_aspect_ratio"))
            => /\ WorkflowFields(SessionAfter(got)) = WorkflowFields(s)
               /\ got.msg \in {"session_expired", "something_went_wrong"}

C13_StaleAspectSelection == [][C13_Step]_vars

-----------------------------------------------------------------------------

Backends == {"generate_ascii_art", "enhance_image", "generate_from_text"}

NoBackendCall(calls) == \A i \in 1..Len(calls) : calls[i] \notin Backends

(* C14: a text message that arrives while the session is at step          *)
(* awaiting_aspect_ratio, awaiting_image, awaiting_prompt_type or         *)
(* processing invokes no generation backend and leaves the session as it  *)
(* was.                                                                   *)
C14_Step ==
    (/\ out'.handler = "message_handler"
     /\ Get(LiveSession(World, now), "step") \in
            {"awaiting_aspect_ratio", "awaiting_image",
             "awaiting_prompt_type", "processing"})
    => /\ NoBackendCall(out'.calls)
       /\ HasSession(sender)
       /\ sender \in DOMAIN user_sessions'
       /\ user_sessions'[sender] = user_sessions[sender]

C14_TextOnlyAtTextStep == [][C14_Step]_vars

-----------------------------------------------------------------------------

(* C15: a text message sent while the session is image / awaiting_image   *)
(* leaves the session as it was, runs no handler of another workflow and  *)
(* calls no backend (the handler makes no call at all), and is answered   *)
(* with a reply.                                                          *)
C15_Step ==
    (/\ out'.handler = "message_handler"
     /\ Get(LiveSession(World, now), "command") = "image"
     /\ Get(LiveSession(World, now), "step") = "awaiting_image")
    => /\ sender \in DOMAIN user_sessions'
       /\ user_sessions'[sender] = user_sessions[sender]
       /\ out'.calls = <<>>
       /\ out'.msg # None

C15_TextAtAwaitingImage == [][C15_Step]_vars

-----------------------------------------------------------------------------

Downloads == {"download_ok", "download_failed"}

(* C16: a photo is taken only by a session at image / awaiting_image: a   *)
(* successful download stores the path of the file written and moves the  *)
(* session to awaiting_prompt_type; in any other state the photo changes  *)
(* neither command, step nor image_path of the session and nothing is     *)
(* downloaded.                                                            *)
C16_Step ==
    out'.handler = "photo_handler" =>
        LET s == LiveSession(World, now)
            after == SessionAfter(WorldAfter)
            calls == out'.calls
        IN  IF Get(s, "command") = "image" /\ Get(s, "step") = "awaiting_image"
            THEN /\ out'.msg \in {"image_saved", "download_failed"}
                 /\ out'.msg = "image_saved" =>
                        /\ calls[Len(calls)] = "download_ok"
                        /\ Get(after, "command") = "image"
                        /\ Get(after, "step") = "awaiting_prompt_type"
                        /\ PathOf(after) = TempPath(sender, now)
                        /\ PathOf(after) \in files'
            ELSE /\ out'.msg = "use_image_first"
                 /\ Get(after, "command") = Get(s, "command")
                 /\ Get(after, "step") = Get(s, "step")
                 /\ PathOf(after) = PathOf(s)
                 /\ \A i \in 1..Len(calls) : calls[i] \notin Downloads
                 /\ files' \subseteq files

C16_PhotoOnlyWhenAwaited == [][C16_Step]_vars

(* a photo has just been downloaded into a session that awaited it *)
C16_Witness ==
    /\ out.handler = "photo_handler"
    /\ out.msg = "image_saved"
    /\ HasSession(out.user)
    /\ user_sessions[out.user]["step"] = "awaiting_prompt_type"
    /\ PathOf(user_sessions[out.user]) \in files

-----------------------------------------------------------------------------

PromptButtons == {"image_auto", "image_custom_prompt"}

(* C17: at step awaiting_prompt_type, image_auto invokes the enhancement  *)
(* backend with no custom prompt and image_custom_prompt moves the        *)
(* session to awaiting_custom_prompt without invoking a backend; at any   *)
(* other step either button leaves the session as it was and invokes no   *)
(* backend.                                                               *)
C17_PromptSelection ==
    \A b \in PromptButtons : \A oc \in CallbackOutcomes(Btn(b)) :
        LET got == CallbackHandlerW(World, sender, Btn(b), oc, now)
            s == LiveSession(World, now)
            after == SessionAfter(got)
        IN  IF Get(s, "step") = "awaiting_prompt_type"
            THEN IF b = "image_auto"
                 THEN /\ got.calls[1] = "enhance_image"
                      /\ got.request = EnhanceRequest(
                             DictUpdate(s, [custom_prompt |-> None]))
                      /\ got.request.prompt = None
                 ELSE /\ NoBackendCall(got.calls)
                      /\ Get(after, "step") = "awaiting_custom_prompt"
                      /\ Get(after, "command") = Get(s, "command")
                      /\ PathOf(after) = PathOf(s)
            ELSE /\ NoBackendCall(got.calls)
                 /\ after = s

(* the auto choice has just run the enhancement with no custom prompt *)
C17_Witness ==
    /\ out.handler = "callback_handler"
    /\ out.msg = "image_generated"
    /\ Called("enhance_image")
    /\ out.request.prompt = None

-----------------------------------------------------------------------------

Ratios == {"3:1", "1:1"}

LastLog(logs) == logs[Len(logs)]

(* C18: a generation request issued for a session whose selected ratio   *)
(* is 3:1 (1:1) asks for 3:1 (1:1), in its arguments and in the           *)
(* instruction text of an enhancement, and the generation is recorded     *)
(* with output_type banner_3_1 (pfp_1_1).                                 *)
C18_Step ==
    LET a == Get(LiveSession(World, now), "aspect_ratio")
        req == out'.request
    IN  (req # <<>> /\ a \in Ratios)
        => /\ req.aspect_ratio = a
           /\ req.kind = "enhance_image" =>
                  /\ req.instruction_ratio = a
                  /\ req.image_config = ImageConfigRatio(a)
           /\ Len(generation_logs') > Len(generation_logs) =>
                  LastLog(generation_logs').output_type = OutputTypeOf(a)

C18_AspectRoundTrip == [][C18_Step]_vars

-----------------------------------------------------------------------------

(* C19: when every attempt to download a photo has failed, the failure is *)
(* reported to the user and the user's session is cleared.                *)
C19_Step ==
    (out'.handler = "photo_handler"
     /\ Len(out'.calls) > 0
     /\ \A i \in 1..Len(out'.calls) :
            out'.calls[i] \notin {"download_ok"})
    => /\ out'.msg = "download_failed"
       /\ DOMAIN SessionAfter(WorldAfter) = {}

C19_DownloadFailureClears == [][C19_Step]_vars

-----------------------------------------------------------------------------

Failures == Outcomes \ {"ok"}

CreditsErrors ==
    {"Insufficient credits", "API error: 400 - Insufficient credits"}

(* C20: when the enhancement started from awaiting_prompt_type fails,     *)
(* whatever the class of the failure, the user has no session and the     *)
(* session's temp file is deleted once the handler has returned; when the *)
(* failure names insufficient credits the user is shown the               *)
(* credits-exhausted message, also when the error text matches another    *)
(* class as well.                                                         *)
C20_CreditsFailure ==
    \A oc \in Failures :
        LET got == CallbackHandlerW(World, sender, Btn("image_auto"), oc, now)
            s == LiveSession(World, now)
        IN  (Get(s, "step") = "awaiting_prompt_type"
             /\ ~NoBackendCall(got.calls))
            => /\ sender \notin DOMAIN got.user_sessions
               /\ PathOf(s) \notin got.files
               /\ oc \in CreditsErrors => got.msg = "credits_exhausted"
               /\ oc \notin CreditsErrors => got.msg # "credits_exhausted"

(* an enhancement has just failed for lack of credits: the message is the *)
(* credits-exhausted one, the session and its temp file are gone          *)
C20_Witness ==
    /\ out.handler = "callback_handler"
    /\ out.msg = "credits_exhausted"
    /\ Called("enhance_image")
    /\ ~HasSession(out.user)
    /\ files = {}

-----------------------------------------------------------------------------

(* C21: when a handler raises an exception that nothing catches, the user *)
(* is sent the generic retry message, the user is left with no session    *)
(* (no entry, or an entry with no keys), the temp file the session held   *)
(* is deleted, and the sessions of the other users are unchanged.         *)
C21_Step ==
    out'.msg = "unexpected_error"
    => /\ DOMAIN SessionAfter(WorldAfter) = {}
       /\ HasSession(sender) =>
              (PathOf(user_sessions[sender]) = NoPath
               \/ PathOf(user_sessions[sender]) \notin files')
       /\ \A u \in Users \ {sender} :
              /\ HasSession(u) <=> u \in DOMAIN user_sessions'
              /\ HasSession(u) => user_sessions'[u] = user_sessions[u]

C21_UncaughtErrorClears == [][C21_Step]_vars

-----------------------------------------------------------------------------

AdminCalls == {"get_all_users", "get_usage_stats", "add_user", "remove_user"}

(* C22: no event of a user other than the owner reads the user list or    *)
(* the statistics, starts the add-user flow, or adds or removes a user;   *)
(* /manage from such a user is answered with the owner-only message.      *)
C22_Step ==
    (sender # OwnerId /\ out'.user = sender)
    => /\ \A i \in 1..Len(out'.calls) : out'.calls[i] \notin AdminCalls
       /\ users_allowed' = users_allowed
       /\ Get(SessionAfter(WorldAfter), "command") # "manage_add_user"
       /\ ~Has(SessionAfter(WorldAfter), "target_user_id")
       /\ out'.handler = "manage_command" => out'.msg = "owner_only"

C22_AdminIsOwnerOnly == [][C22_Step]_vars

-----------------------------------------------------------------------------

(* the owner has started the add-user flow and named a user not yet       *)
(* allowed: the Confirm button for that user is on screen                 *)
AwaitingConfirmation(target) ==
    LET s == LiveSession(World, now)
    IN  /\ sender = OwnerId
        /\ Get(s, "command") = "manage_add_user"
        /\ Has(s, "target_user_id")
        /\ s["target_user_id"] = target
        /\ ~is_user_allowed(users_allowed, target)

(* C23: when the owner has started the add-user flow and supplied the id  *)
(* of a user not yet allowed, pressing manage_add_confirm_<id> puts that  *)
(* user in the allowed table and clears the owner's session.              *)
C23_AddUserCompletes ==
    \A target \in Users :
        LET got == CallbackHandlerW(World, sender,
                       BtnArg("manage_add_confirm_", target), "ok", now)
        IN  AwaitingConfirmation(target)
            => /\ is_user_allowed(got.users_allowed, target)
               /\ sender \notin DOMAIN got.user_sessions

-----------------------------------------------------------------------------

RecordsOf(ua, u) == {r \in ua : r.user_id = u}

ConfirmAdd(w, target) ==
    CallbackHandlerW(w, sender, BtnArg("manage_add_confirm_", target), "ok",
                     now)

(* C24: add_user for an id already in the allowed table fails and leaves  *)
(* the table as it was; two presses of Confirm for the same target, once  *)
(* the owner has named a user not yet allowed, leave exactly one record   *)
(* for the target, the second press adding nothing and being rejected.    *)
C24_DuplicateSafeAdd ==
    /\ \A u \in Users :
           is_user_allowed(users_allowed, u)
           => add_user(users_allowed, u, "member", sender) =
                  [ok |-> FALSE, users_allowed |-> users_allowed]
    /\ \A target \in Users :
           LET first == ConfirmAdd(World, target)
               second == ConfirmAdd(Settled(first), target)
           IN  AwaitingConfirmation(target)
               => /\ Cardinality(RecordsOf(second.users_allowed, target)) = 1
                  /\ second.users_allowed = first.users_allowed
                  /\ second.msg \in {"add_failed", "session_expired"}

-----------------------------------------------------------------------------

RemoveConfirm(w, target) ==
    CallbackHandlerW(w, sender, BtnArg("manage_remove_confirm_", target),
                     "ok", now)

RemoveExecute(w, target) ==
    CallbackHandlerW(w, sender, BtnArg("manage_remove_execute_", target),
                     "ok", now)

(* C25: in every reachable state the owner is in the allowed table and is *)
(* not among the users offered for removal; manage_remove_confirm_ for    *)
(* the owner is answered with the cannot-remove-owner message, and        *)
(* manage_remove_execute_ for the owner fails and deletes nothing.        *)
C25_OwnerNeverRemoved ==
    LET routed == DOMAIN LiveSession(World, now) # {}
        confirm == RemoveConfirm(World, OwnerId)
        execute == RemoveExecute(World, OwnerId)
    IN  /\ is_user_allowed(users_allowed, OwnerId)
        /\ OwnerId \notin RemovableUsers(users_allowed)
        /\ confirm.msg =
               (IF routed THEN "cannot_remove_owner" ELSE "session_expired")
        /\ confirm.users_allowed = users_allowed
        /\ execute.msg =
               (IF routed THEN "remove_failed" ELSE "session_expired")
        /\ execute.users_allowed = users_allowed
        /\ execute.daily_usage = daily_usage

(* a removal of the owner has just been attempted and has failed *)
C25_Witness ==
    /\ out.handler = "callback_handler"
    /\ out.msg = "remove_failed"
    /\ Called("remove_user")
    /\ is_user_allowed(users_allowed, OwnerId)

-----------------------------------------------------------------------------

OwnerRecords(ua) == {r \in ua : r.is_owner}

(* C26: after any sequence of init_database, add_user and remove_user,    *)
(* exactly one record of the allowed table has is_owner set, and it is    *)
(* the record of the configured owner.                                    *)
C26_OneOwnerRecord ==
    /\ Cardinality(OwnerRecords(users_allowed)) = 1
    /\ \A r \in OwnerRecords(users_allowed) : r.user_id = OwnerId

(* users have been added, and a removal of the owner has just been tried *)
C26_Witness ==
    /\ out.handler = "remove_user"
    /\ out.user = OwnerId
    /\ Cardinality(users_allowed) = 3

-----------------------------------------------------------------------------

StoredCount(du, u) == IF u \in DOMAIN du THEN du[u].generations_count ELSE 0

(* C27: a handler that records a generation appends one entry to the      *)
(* generation log; for a user other than the owner the user then has a    *)
(* daily-usage record, dated today, whose count is one more than the      *)
(* count stored before (one, when there was no record); for the owner no  *)
(* daily-usage record changes.                                            *)
C27_Step ==
    (\E i \in 1..Len(out'.calls) : out'.calls[i] = "record_generation")
    => /\ Len(generation_logs') = Len(generation_logs) + 1
       /\ LastLog(generation_logs').user_id = sender
       /\ sender # OwnerId =>
              /\ sender \in DOMAIN daily_usage'
              /\ daily_usage'[sender].last_generation_date =
                     AdaptDate(today(now))
              /\ daily_usage'[sender].generations_count =
                     StoredCount(daily_usage, sender) + 1
       /\ sender = OwnerId => daily_usage' = daily_usage

C27_RecordGeneration == [][C27_Step]_vars

-----------------------------------------------------------------------------

(* C28: whenever the date stored in a user's daily-usage record is not    *)
(* the current date, get_user_daily_count returns 0 for that user and     *)
(* can_user_generate reports that the user may generate, with the whole   *)
(* daily limit remaining.                                                 *)
C28_LazyRollover ==
    \A u \in NonOwners :
        (u \in DOMAIN daily_usage
         /\ daily_usage[u].last_generation_date # AdaptDate(today(now)))
        => /\ can_user_generate(World, u, now).status["can_generate"]
           /\ can_user_generate(World, u, now).status["remaining"] = DailyLimit
           /\ get_user_daily_count(daily_usage, u) = 0

-----------------------------------------------------------------------------
(* The update loop.  Application.builder() is used without                *)
(* concurrent_updates, so the application takes the updates one by one in *)
(* arrival order and awaits each handler before it takes the next;        *)
(* enhance_image is a plain (blocking) requests.post made from inside the *)
(* coroutine.  A handler in progress is either waiting at the await that  *)
(* follows session['step'] = 'processing' in _handle_ascii_text, or       *)
(* inside the call to the image backend.                                  *)

MaxPending == 2

LoopButtons ==
    {"image_banner", "banner_3x1", "image_auto", "ascii_again", "cancel"}

(* The owner goes through the two workflows; the other user presses      *)
(* buttons meanwhile.                                                     *)
LoopEvents(u) ==
    IF u = OwnerId
    THEN {[kind |-> "callback", data |-> n] : n \in LoopButtons} \cup
         {[kind |-> "message", data |-> "KARWA"],
          [kind |-> "photo", data |-> None]}
    ELSE {[kind |-> "callback", data |-> n] : n \in {"image_banner", "cancel"}}

LoopOutcomes == {"ok", "none"}

TextOf(upd) == [text |-> upd.data, forward_from |-> NoArg]

(* the handler of an update, run from start to end *)
HandlerOf(w, upd, oc) ==
    CASE upd.kind = "callback" ->
           CallbackHandlerW(w, upd.user, Btn(upd.data), oc, now)
      [] upd.kind = "message" ->
           MessageHandlerW(w, upd.user, TextOf(upd), oc, now)
      [] OTHER -> PhotoHandlerW(w, upd.user, 0, now)

(* where the handler of an update stops before it is done *)
SuspendsAt(w, upd) ==
    LET calls == HandlerOf(w, upd, "ok").calls
    IN  IF \E i \in 1..Len(calls) : calls[i] = "enhance_image"
        THEN "backend"
        ELSE IF \E i \in 1..Len(calls) : calls[i] = "generate_ascii_art"
        THEN "await"
        ELSE "done"

(* the stores at that point: the session has been moved to 'processing' *)
AtSuspension(w, upd) ==
    LET u == upd.user
        w1 == get_user_session(w, u, now)
    IN  IF upd.kind = "message"
        THEN MutateSession(
                 MutateSession(w1, u, [text_input |-> upd.data,
                                       step |-> "processing"]),
                 u, [output_type |->
                         OutputTypeOf(w1.user_sessions[u]["aspect_ratio"])])
        ELSE MutateSession(w1, u, [prompt_type |-> "auto",
                                   step |-> "processing",
                                   custom_prompt |-> None,
                                   last_activity |-> now])

(* the rest of the handler, from the suspension on *)
Resume(w, upd, oc) ==
    IF upd.kind = "message"
    THEN _handle_ascii_text(w, upd.user, TextOf(upd), oc, now)
    ELSE _process_image_enhancement(w, upd.user, oc, now, TRUE).w

InProgress == current.at # "done"

InFlight == current.at = "backend"

(* Mutant: updates are handled concurrently, the next one is taken while *)
(* a handler is in progress                                               *)
CanStart_concurrent == pending # <<>>

(* the application may take the next update *)
CanStart == ~InProgress

LoopCommit(w, upd, msg) ==
    /\ user_sessions' = w.user_sessions
    /\ files' = w.files
    /\ users_allowed' = w.users_allowed
    /\ daily_usage' = w.daily_usage
    /\ generation_logs' = w.generation_logs
    /\ out' = [user |-> upd.user, handler |-> upd.kind, msg |-> msg,
               calls |-> w.calls, request |-> w.request]
    /\ UNCHANGED <<now, sender, steps>>

(* Telegram delivers an update of user u *)
Arrive(u, e) ==
    /\ steps < MaxSteps
    /\ Len(pending) < MaxPending
    /\ pending' = Append(pending,
                      [user |-> u, kind |-> e.kind, data |-> e.data,
                       during |-> IF InProgress THEN current.update.user
                                  ELSE 0])
    /\ steps' = steps + 1
    /\ UNCHANGED <<user_sessions, files, users_allowed, daily_usage,
                   generation_logs, now, out, sender, current>>

(* the application takes the oldest update and runs its handler, to the   *)
(* end or to the point where it is suspended                              *)
LoopStart ==
    /\ CanStart
    /\ pending # <<>>
    /\ pending' = Tail(pending)
    /\ \E at \in {SuspendsAt(World, Head(pending))} :
           /\ current' = [update |-> Head(pending), at |-> at]
           /\ IF at = "done"
              THEN \E w \in {HandlerOf(World, Head(pending), "ok")} :
                       LoopCommit(w, Head(pending), w.msg)
              ELSE LoopCommit(AtSuspension(World, Head(pending)),
                              Head(pending), "processing")

(* the handler in progress goes on to its end *)
LoopReturn(oc) ==
    /\ InProgress
    /\ current' = [current EXCEPT !.at = "done"]
    /\ \E w \in {Resume(World, current.update, oc)} :
           LoopCommit(w, current.update, w.msg)
    /\ UNCHANGED pending

LoopInit == Init /\ sender = OwnerId

LoopNext ==
    \/ \E u \in Users : \E e \in LoopEvents(u) : Arrive(u, e)
    \/ LoopStart
    \/ \E oc \in LoopOutcomes : LoopReturn(oc)

LoopSpec == LoopInit /\ [][LoopNext]_vars

(* C29: while a call to the image backend made for one user is in flight  *)
(* and an update of a different user is waiting, the application can      *)
(* take an update and run its handler.                                    *)
C29_OtherUsersNotBlocked ==
    (InFlight
     /\ \E i \in 1..Len(pending) : pending[i].user # current.update.user)
    => CanStart

-----------------------------------------------------------------------------

Stores ==
    <<user_sessions, files, users_allowed, daily_usage, generation_logs>>

(* C30: the handling of an update starts only when no handler is in       *)
(* progress, and it is the oldest waiting update that is taken; while a   *)
(* handler is in progress (its user's session at step 'processing') no    *)
(* step changes a session or the stores.                                  *)
C30_Step ==
    /\ Len(pending') < Len(pending)
       => /\ ~InProgress
          /\ current'.update = Head(pending)
    /\ (InProgress /\ InProgress') => UNCHANGED Stores
    /\ InProgress' =>
           user_sessions'[current'.update.user]["step"] = "processing"

-----------------------------------------------------------------------------

TextWorkflowSteps == {"awaiting_aspect_ratio", "awaiting_text", "processing"}

ImageWorkflowSteps ==
    {"awaiting_aspect_ratio", "awaiting_image", "awaiting_prompt_type",
     "awaiting_custom_prompt", "processing"}

(* C31: in every stored session the step belongs to the workflow named by *)
(* command: ascii and generate sessions are at awaiting_aspect_ratio,     *)
(* awaiting_text or processing, image sessions at awaiting_aspect_ratio,  *)
(* awaiting_image, awaiting_prompt_type, awaiting_custom_prompt or        *)
(* processing, and a manage_add_user session has no step.                 *)
C31_StepConsistent ==
    \A u \in DOMAIN user_sessions :
        LET s == user_sessions[u]
        IN  /\ Get(s, "command") \in {"ascii", "generate"}
               => Get(s, "step") \in TextWorkflowSteps
            /\ Get(s, "command") = "image"
               => Get(s, "step") \in ImageWorkflowSteps
            /\ Get(s, "command") = "manage_add_user" => ~Has(s, "step")

-----------------------------------------------------------------------------

CleanupButtons == {"cancel", "done", "back_to_menu"}

(* the world with the temp files gone from the disk *)
FilesGone == [World EXCEPT !.files = {}]

(* C32: after every handler, the image_path of every stored session names *)
(* a file that is on disk (no session refers to a file the bot deleted);  *)
(* and the handlers that release a file end normally when the file is     *)
(* already gone: cancel, done and back_to_menu leave the user without a   *)
(* session, the enhancement and the expiry in get_user_session do not     *)
(* raise.                                                                 *)
C32_NoReleasedPathReferenced ==
    /\ \A u \in DOMAIN user_sessions :
           PathOf(user_sessions[u]) # NoPath
           => PathOf(user_sessions[u]) \in files
    /\ \A b \in CleanupButtons :
           LET got == CallbackHandlerW(FilesGone, sender, Btn(b), "ok", now)
           IN  /\ got.msg \in {"cancel_done", "done_menu"}
               /\ sender \notin DOMAIN got.user_sessions
    /\ CallbackHandlerW(FilesGone, sender, Btn("image_auto"), "ok", now).msg
           # "unexpected_error"
    /\ DOMAIN get_user_session(FilesGone, sender,
                               now + SessionTimeout + 1).user_sessions[sender]
           \subseteq (IF HasSession(sender)
                         /\ ~Has(user_sessions[sender], "last_activity")
                      THEN DOMAIN user_sessions[sender] ELSE {})

(* an enhancement has ended: its temp file is deleted and no session is   *)
(* left to name it                                                        *)
C32_Witness ==
    /\ out.msg = "image_generated"
    /\ Len(generation_logs) > 0
    /\ files = {}
    /\ user_sessions = EmptyDict

-----------------------------------------------------------------------------

(* C33: a text message received while the session is an image session at  *)
(* step awaiting_custom_prompt invokes the image-enhancement backend with *)
(* that text as the custom prompt; when the handler has returned the user *)
(* has no session and the session's temp file is deleted.                 *)
C33_Step ==
    LET s == LiveSession(World, now)
    IN  (out'.handler = "message_handler"
         /\ Get(s, "command") = "image"
         /\ Get(s, "step") = "awaiting_custom_prompt")
        => /\ \E i \in 1..Len(out'.calls) : out'.calls[i] = "enhance_image"
           /\ out'.request # <<>>
           /\ out'.request.prompt \in {m.text : m \in Messages}
           /\ sender \notin DOMAIN user_sessions'
           /\ PathOf(s) \notin files'

C33_CustomPromptEnhances == [][C33_Step]_vars

-----------------------------------------------------------------------------

(* the runs of the handlers that can generate, on the present state: the  *)
(* world each leaves, with the outcome of the backend and of the delivery *)
GenerationRuns ==
    {[w |-> CallbackHandlerW(World, sender, Btn("image_auto"), oc, now),
      oc |-> oc] : oc \in Outcomes}
    \cup
    {[w |-> MessageHandlerW(World, sender, m, oc, now), oc |-> oc] :
         m \in Messages, oc \in MessageOutcomes}

CountOf(calls, c) == Cardinality({i \in 1..Len(calls) : calls[i] = c})

(* the backend of each workflow *)
BackendOf(command) ==
    CASE command = "ascii" -> "generate_ascii_art"
      [] command = "image" -> "enhance_image"
      [] command = "generate" -> "generate_from_text"
      [] OTHER -> None

-----------------------------------------------------------------------------

IsDownloadCall(c) ==
    c \in {"download_ok", "download_failed", "sleep_1", "sleep_2", "sleep_4"}

(* the download attempts and waits of the handler that ran last *)
DownloadTrace == SelectSeq(out.calls, IsDownloadCall)

-----------------------------------------------------------------------------

(* C36: get_user_session(u) on a stored session whose last_activity is    *)
(* more than 600 seconds before now deletes the file at its image_path,   *)
(* stores an empty session in its place and returns it; on a session      *)
(* whose last_activity is at most 600 seconds old it returns the stored   *)
(* session and changes nothing, last_activity included; for a user with   *)
(* no session it stores and returns an empty one.                         *)
C36_GetUserSession ==
    \A u \in Users :
        LET got == get_user_session(World, u, now)
            others == (DOMAIN user_sessions) \ {u}
        IN  /\ DOMAIN got.user_sessions = (DOMAIN user_sessions) \cup {u}
            /\ \A v \in others : got.user_sessions[v] = user_sessions[v]
            /\ u \notin DOMAIN user_sessions =>
                   /\ got.user_sessions[u] = EmptyDict
                   /\ got.files = files
            /\ u \in DOMAIN user_sessions =>
                   LET s == user_sessions[u]
                   IN  /\ (Has(s, "last_activity")
                           /\ now - s["last_activity"] > SessionTimeout) =>
                              /\ got.user_sessions[u] = EmptyDict
                              /\ got.files = files \ {PathOf(s)}
                       /\ (Has(s, "last_activity")
                           /\ now - s["last_activity"] <= SessionTimeout) =>
                              /\ got.user_sessions[u] = s
                              /\ got.files = files

(* a session with its file on disk is read more than 600 seconds after    *)
(* its last activity                                                      *)
C36_Witness ==
    /\ sender \in DOMAIN user_sessions
    /\ Has(user_sessions[sender], "last_activity")
    /\ now - user_sessions[sender]["last_activity"] > SessionTimeout
    /\ PathOf(user_sessions[sender]) \in files

-----------------------------------------------------------------------------

ReadOnlyViews ==
    {Btn("manage_view_users"), Btn("manage_stats")} \cup
    {BtnArg("manage_users_page_", n) : n \in Users}

(* C37: the read-only admin views need no session.  When the owner, who   *)
(* has no session, has just been shown the management menu by /manage, a  *)
(* press of manage_view_users, manage_users_page_<n> or manage_stats is   *)
(* answered with the user page or the statistics, not with the            *)
(* session-expired reply.                                                 *)
C37_AdminViewsNeedNoSession ==
    (/\ out.handler = "manage_command"
     /\ out.msg = "management_menu"
     /\ LiveSession(World, now) = EmptyDict)
    => \A cb \in ReadOnlyViews :
           CallbackHandlerW(World, sender, cb, "ok", now).msg \in
               {"users_page", "usage_stats"}

-----------------------------------------------------------------------------
(* admin_handlers.py: the remove-user list over a populated users table *)

(* the number of buttons of the list: removable_users[:10] *)
PageSize == 10

(* the most users, the owner apart, the table holds *)
MaxListUsers == 11

(* added_date takes the values 0..MaxAddedDate *)
MaxAddedDate == 2

(* a row of users_allowed with its added_date column *)
DatedRow(u, d) ==
    [user_id |-> u,
     username |-> IF u = OwnerId THEN "owner" ELSE "member",
     added_by_user_id |-> OwnerId,
     is_owner |-> u = OwnerId, added_date |-> d]

(* the tables: the owner's row and the rows of users 2..n+1, a user with  *)
(* a larger id added no earlier: user i+1 is added on the date that is    *)
(* the number of date changes before it                                   *)
ListTables ==
    UNION {{{DatedRow(OwnerId, 0)} \cup
            {DatedRow(i + 1, Cardinality({k \in 1..MaxAddedDate : t[k] < i})) :
                 i \in 1..n} :
                t \in [1..MaxAddedDate -> 0..n]} :
           n \in 0..MaxListUsers}

(* what rows[:n] can be when rows is read ORDER BY added_date DESC: n of  *)
(* the rows (all, when there are fewer), none older than a row left out;  *)
(* rows of the same date come in either order                             *)
FirstRows(rows, n) ==
    {P \in SUBSET rows :
        /\ Cardinality(P) = (IF Cardinality(rows) < n THEN Cardinality(rows)
                             ELSE n)
        /\ \A a \in P, b \in rows \ P : a.added_date >= b.added_date}

(* page_users: the users _show_remove_user_list makes buttons for *)
PageUsers(ua) == FirstRows({r \in ua : ~r.is_owner}, PageSize)

ListButtons == {Btn("image_banner"), Btn("manage_remove_user")}

(* the owner presses a button; the list's buttons are kept with the reply *)
list_callback_handler(cb) ==
    \E w \in {CallbackHandlerW(World, OwnerId, cb, "ok", now)},
       page \in PageUsers(users_allowed) :
        /\ user_sessions' = w.user_sessions
        /\ files' = w.files
        /\ out' = [user |-> OwnerId, handler |-> "callback_handler",
                   msg |-> w.msg, calls |-> w.calls,
                   request |-> IF w.msg = "remove_user_list"
                               THEN [kind |-> "remove_buttons",
                                     users |-> {r.user_id : r \in page}]
                               ELSE <<>>]
        /\ UNCHANGED <<users_allowed, daily_usage, generation_logs, now,
                       sender, steps, pending, current>>

ListInit ==
    /\ pending = <<>>
    /\ current = [update |-> NoUpdate, at |-> "done"]
    /\ user_sessions = EmptyDict
    /\ files = {}
    /\ users_allowed \in ListTables
    /\ daily_usage = EmptyDict
    /\ generation_logs = <<>>
    /\ now = StartTime
    /\ sender = OwnerId
    /\ steps = 0
    /\ out = [user |-> 0, handler |-> None, msg |-> "init", calls |-> <<>>,
              request |-> <<>>]

ListNext == \E cb \in ListButtons : list_callback_handler(cb)

ListSpec == ListInit /\ [][ListNext]_vars

(* C38: the remove-user list offers every non-owner user: whatever the    *)
(* number of allowed users, when the list is shown every user of the      *)
(* table who is not the owner has a removal button on it (the list has no *)
(* button that leads to a further page).                                  *)
C38_EveryNonOwnerOffered ==
    out.msg = "remove_user_list" =>
        RemovableUsers(users_allowed) \subseteq out.request.users

-----------------------------------------------------------------------------

RetryButtons == {"ascii_again", "image_again", "generate_again"}

(* C39: a retry button restarts its workflow under the checks of the      *)
(* command entry.  When the sender does not pass the authorization and    *)
(* quota check, a press of ascii_again, image_again or generate_again     *)
(* creates no session and replaces none: the sender's session is what it  *)
(* was before the press.                                                  *)
C39_RetryButtonsChecked ==
    ~_check_access_and_limit(World, sender, now, TRUE).ok
    => \A b \in RetryButtons :
           SessionAfter(CallbackHandlerW(World, sender, Btn(b), "ok", now)) =
               LiveSession(World, now)

-----------------------------------------------------------------------------

(* C40: can_user_generate returns for every user a record with the fields *)
(* its callers read, the is_owner flag among them (false for a user who   *)
(* is not the owner); so when an allowed user, the owner or not, sends    *)
(* /start or /commands, the handler completes with the welcome text or    *)
(* the command list and not with a missing-field error.                   *)
C40_Step ==
    (/\ out'.handler \in {"start_command", "commands_command"}
     /\ is_user_allowed(users_allowed, sender))
    => LET status == can_user_generate(World, sender, now).status
       IN  /\ Has(status, "can_generate")
           /\ Has(status, "is_owner")
           /\ status["is_owner"] = (sender = OwnerId)
           /\ out'.msg \in {"welcome", "commands_list"}

C40_StatusRecordComplete == [][C40_Step]_vars

====
